---------------------------- MODULE Spec2Model ----------------------------
(***************************************************************************)
(* Model of rag_modules/intelligent_query_router.py                        *)
(* (IntelligentQueryRouterModule): query classification with its           *)
(* rule-based fallback, strategy dispatch, the combined search with its    *)
(* thread pool and deadline, result annotation and the routing counters.   *)
(*                                                                         *)
(* Characters of the source's Chinese strings are written as their code    *)
(* points ("u4E3A" is U+4E3A); a string is a sequence of characters.       *)
(* Floats are exact rationals n/d: no value compared in the source is      *)
(* close enough to a threshold for rounding to matter.                     *)
(***************************************************************************)
EXTENDS Integers, Sequences, FiniteSets, TLC

(***************************************************************************)
(* Bounds of the model.                                                    *)
(***************************************************************************)
MaxK == 2          \* top_k ranges over 1..MaxK
MaxLen == 2        \* an engine returns at most MaxLen passages
MaxCalls == 2      \* route_query calls started in one behaviour
MaxElapsed == 60   \* seconds of wall clock followed in a combined search
TickSeconds == 30  \* granularity of the wall clock
MaxSplitK == 8     \* the split of top_k is examined for top_k in 1..MaxSplitK
MaxRetries == 3    \* max_retries ranges over 0..MaxRetries
MaxChunks == 2     \* a streaming response holds at most MaxChunks chunks
NCallers == 2      \* concurrent callers of route_query

(***************************************************************************)
(* Values.  A JSON value or Python object is a tagged record.              *)
(***************************************************************************)
Absent == [t |-> "absent"]                       \* key not in the dict
Num(n, d) == [t |-> "num", n |-> n, d |-> d]     \* the number n/d, d > 0
Str(s) == [t |-> "str", s |-> s]
Bool(b) == [t |-> "bool", b |-> b]
None == [t |-> "None"]

IsNum(v) == v.t = "num"
\* a > b, a >= b, a = b on rationals with positive denominators
NumGt(a, b) == a.n * b.d > b.n * a.d
NumGe(a, b) == a.n * b.d >= b.n * a.d
NumEq(a, b) == a.n * b.d = b.n * a.d

\* class SearchStrategy(Enum)
HYBRID_TRADITIONAL == "hybrid_traditional"
GRAPH_RAG == "graph_rag"
COMBINED == "combined"
SearchStrategy == {HYBRID_TRADITIONAL, GRAPH_RAG, COMBINED}

(***************************************************************************)
(* Strings of the source.                                                  *)
(***************************************************************************)
Space == "u0020"
\* complexity_keywords: weishenme, ruhe, guanxi, yingxiang, yuanyin, bijiao, qubie
complexity_keywords ==
    << <<"u4E3A", "u4EC0", "u4E48">>, <<"u5982", "u4F55">>, <<"u5173", "u7CFB">>,
       <<"u5F71", "u54CD">>, <<"u539F", "u56E0">>, <<"u6BD4", "u8F83">>,
       <<"u533A", "u522B">> >>
\* relation_keywords: pei, dapei, zuhe, xiangguan, lianxi, lianjie
relation_keywords ==
    << <<"u914D">>, <<"u642D", "u914D">>, <<"u7EC4", "u5408">>,
       <<"u76F8", "u5173">>, <<"u8054", "u7CFB">>, <<"u8FDE", "u63A5">> >>
\* Threshold lowered to 0.2
Threshold_low == Num(2, 10)
Threshold == Num(3, 10)     \* the 0.3 of _rule_based_analysis
RuleConfidence == Num(6, 10)
RuleReasoning == "rule_based_simple_analysis"
DefaultReasoning == "default_analysis"

\* kw in query: kw occurs in query as a contiguous substring
Contains(q, kw) ==
    \E i \in 1..(Len(q) - Len(kw) + 1) : SubSeq(q, i, i + Len(kw) - 1) = kw

\* sum(1 for kw in keywords if kw in query)
CountPresent(keywords, q) ==
    Cardinality({i \in 1..Len(keywords) : Contains(q, keywords[i])})

\* len(query.split()): the number of maximal runs of non-space characters
SplitCount(q) ==
    Cardinality({i \in 1..Len(q) :
                    /\ q[i] # Space
                    /\ (i = 1 \/ q[i - 1] = Space)})

\* @dataclass QueryAnalysis
MkAnalysis(c, r, rr, ec, st, conf, why) ==
    [t |-> "QueryAnalysis",
     query_complexity |-> c,
     relationship_intensity |-> r,
     reasoning_required |-> rr,
     entity_count |-> ec,
     recommended_strategy |-> st,
     confidence |-> conf,
     reasoning |-> why]

\* rule_based_analysis asking for both scores to pass the threshold
rule_based_analysis_and(q) ==
    LET complexity == Num(CountPresent(complexity_keywords, q), Len(complexity_keywords))
        relation_intensity == Num(CountPresent(relation_keywords, q), Len(relation_keywords))
        strategy == IF NumGt(complexity, Threshold) /\ NumGt(relation_intensity, Threshold)
                    THEN GRAPH_RAG ELSE HYBRID_TRADITIONAL
    IN  MkAnalysis(complexity, relation_intensity,
                   Bool(NumGt(complexity, Threshold)),
                   Num(SplitCount(q), 1), strategy, RuleConfidence, Str(RuleReasoning))

\* _rule_based_analysis(query)
rule_based_analysis(q) ==
    LET complexity == Num(CountPresent(complexity_keywords, q), Len(complexity_keywords))
        relation_intensity == Num(CountPresent(relation_keywords, q), Len(relation_keywords))
        strategy == IF NumGt(complexity, Threshold) \/ NumGt(relation_intensity, Threshold)
                    THEN GRAPH_RAG ELSE HYBRID_TRADITIONAL
    IN  MkAnalysis(complexity, relation_intensity,
                   Bool(NumGt(complexity, Threshold)),
                   Num(SplitCount(q), 1), strategy, RuleConfidence, Str(RuleReasoning))

(***************************************************************************)
(* The classification service's reply.  kind is what the call did:         *)
(*   "transport_error"  chat.completions.create raised                     *)
(*   "not_json"         the content does not parse (json.loads raises)     *)
(*   "json_not_object"  the content parses to a list, number or string     *)
(*   "json_object"      the content parses to a dict, obj: each of the     *)
(*                      seven keys holds a value or is Absent              *)
(***************************************************************************)
Fields == {"query_complexity", "relationship_intensity", "reasoning_required",
           "entity_count", "recommended_strategy", "confidence", "reasoning"}
NoObj == [f \in Fields |-> Absent]
ErrorReply(kind) == [kind |-> kind, obj |-> NoObj]
ObjectReply(o) == [kind |-> "json_object", obj |-> o]

\* result.get handing back the default whatever the dict holds
Get_defaultonly(obj, key, default) == default

\* result.get(key, default)
Get(obj, key, default) == IF obj[key] = Absent THEN default ELSE obj[key]

\* SearchStrategy(value) raises ValueError unless value is one of the three
IsStrategyValue(v) == v.t = "str" /\ v.s \in SearchStrategy

\* f"{analysis.confidence:.2f}" raises unless confidence is a number
\* (a bool formats as a float)
FormatsAsFloat(v) == v.t \in {"num", "bool"}

\* The body of the try block, lines 116-136: raises, or the analysis built.
TryRaises(r) ==
    \/ r.kind # "json_object"
    \/ ~IsStrategyValue(Get(r.obj, "recommended_strategy", Str(HYBRID_TRADITIONAL)))
    \/ ~FormatsAsFloat(Get(r.obj, "confidence", Num(5, 10)))

TryAnalysis(r) ==
    MkAnalysis(Get(r.obj, "query_complexity", Num(5, 10)),
               Get(r.obj, "relationship_intensity", Num(5, 10)),
               Get(r.obj, "reasoning_required", Bool(FALSE)),
               Get(r.obj, "entity_count", Num(1, 1)),
               Get(r.obj, "recommended_strategy", Str(HYBRID_TRADITIONAL)).s,
               Get(r.obj, "confidence", Num(5, 10)),
               Get(r.obj, "reasoning", Str(DefaultReasoning)))

\* What the except branch of analyze_query hands back (lines 138-140): the
\* rule-based analysis is computed and dropped, the function falls off its
\* end and returns None.
ExceptResult(q) == None

\* The call of line 140: _rule_based_analysis runs in the except branch only
RuleCall(q, r) == IF TryRaises(r) THEN rule_based_analysis(q) ELSE None

\* analyze_query(query) when the service answers r
analyze_query(q, r) ==
    IF TryRaises(r) THEN ExceptResult(q) ELSE TryAnalysis(r)


(***************************************************************************)
(* Passages.  A passage is an object with a fixed page_content and a       *)
(* mutable metadata dict; "none" stands for a key the dict does not hold.  *)
(* d1 and d2 differ only after their first 100 characters; d3 is shorter   *)
(* than 100 characters.                                                    *)
(***************************************************************************)
PrefixLen == 100
Docs == {"d1", "d2", "d3"}
Rep(c, n) == [i \in 1..n |-> c]
page_content ==
    [d \in Docs |->
        CASE d = "d1" -> Rep("x", PrefixLen) \o <<"a">>
          [] d = "d2" -> Rep("x", PrefixLen) \o <<"b">>
          [] OTHER    -> <<"y", "z">>]

\* s[:n]
Slice(s, n) == SubSeq(s, 1, IF Len(s) < n THEN Len(s) ELSE n)
\* doc.page_content[:100]
Prefix(d) == Slice(page_content[d], PrefixLen)

\* hash(doc.page_content[:100]), as a function of the passage: hash() of a str
\* is fixed for the life of the process (PYTHONHASHSEED), equal strings hash
\* alike, different strings may collide.
HashValues == {0, 1}
HashFns == {h \in [Docs -> HashValues] :
               \A d, e \in Docs : Prefix(d) = Prefix(e) => h[d] = h[e]}

NoMeta == [search_source |-> "none", route_strategy |-> "none",
           query_complexity |-> Absent, route_confidence |-> Absent]
FreshMeta == [d \in Docs |-> NoMeta]

\* The ranked lists an engine can return: passages without repetition.
RECURSIVE ListsOfLen(_)
ListsOfLen(n) ==
    IF n = 0 THEN {<<>>}
    ELSE {Append(s, d) : s \in ListsOfLen(n - 1), d \in Docs}
NoRepeat(s) == \A i, j \in 1..Len(s) : i # j => s[i] # s[j]
DocLists == {s \in UNION {ListsOfLen(n) : n \in 0..MaxLen} : NoRepeat(s)}

\* What one engine call does: it raises, or returns a list.
EngineOutcomes == [raised : {TRUE}, docs : {<<>>}] \cup [raised : {FALSE}, docs : DocLists]

(***************************************************************************)
(* _combined_search, lines 225-227 and 261-286.                            *)
(***************************************************************************)
Max(a, b) == IF a > b THEN a ELSE b
Min(a, b) == IF a < b THEN a ELSE b
\* traditional_k without the max(1, ...)
traditional_k_half(top_k) == top_k \div 2

traditional_k(top_k) == Max(1, top_k \div 2)
graph_k(top_k) == top_k - traditional_k(top_k)

\* MergeStep without the seen_contents test
MergeStep_nodedup(acc, docs, i, source, h) ==
    IF i < Len(docs)
    THEN [seen |-> acc.seen \cup {h[docs[i + 1]]},
          out  |-> Append(acc.out, docs[i + 1]),
          meta |-> [acc.meta EXCEPT ![docs[i + 1]].search_source = source]]
    ELSE acc

\* One "if i < len(docs)" block of the loop: the passage at index i of
\* docs (0-based i, so docs[i + 1]) is kept and tagged unless its hash was seen.
\* acc = [seen, out, meta].
MergeStep(acc, docs, i, source, h) ==
    IF i < Len(docs) /\ h[docs[i + 1]] \notin acc.seen
    THEN [seen |-> acc.seen \cup {h[docs[i + 1]]},
          out  |-> Append(acc.out, docs[i + 1]),
          meta |-> [acc.meta EXCEPT ![docs[i + 1]].search_source = source]]
    ELSE acc

\* for i in range(max_len): the graph passage first, then the traditional one
RECURSIVE MergeLoop(_, _, _, _, _, _)
MergeLoop(i, max_len, graph, trad, acc, h) ==
    IF i >= max_len THEN acc
    ELSE MergeLoop(i + 1, max_len, graph, trad,
                   MergeStep(MergeStep(acc, graph, i, "graph_rag", h),
                             trad, i, "traditional", h),
                   h)

\* CombinedMerge returning combined_docs whole
CombinedMerge_notrunc(graph, trad, top_k, m, h) ==
    LET acc == MergeLoop(0, Max(Len(trad), Len(graph)), graph, trad,
                         [seen |-> {}, out |-> <<>>, meta |-> m], h)
    IN  [docs |-> acc.out, meta |-> acc.meta]

\* CombinedMerge looping over len(traditional_docs) only
CombinedMerge_tradlen(graph, trad, top_k, m, h) ==
    LET acc == MergeLoop(0, Len(trad), graph, trad,
                         [seen |-> {}, out |-> <<>>, meta |-> m], h)
    IN  [docs |-> Slice(acc.out, top_k), meta |-> acc.meta]

\* The merge of lines 261-286: [docs, meta], docs = combined_docs[:top_k]
CombinedMerge(graph, trad, top_k, m, h) ==
    LET acc == MergeLoop(0, Max(Len(trad), Len(graph)), graph, trad,
                         [seen |-> {}, out |-> <<>>, meta |-> m], h)
    IN  [docs |-> Slice(acc.out, top_k), meta |-> acc.meta]

\* A search task of lines 233-251: a failure of the engine leaves []
TaskDocs(outcome) == IF outcome.raised THEN <<>> ELSE outcome.docs

(***************************************************************************)
(* _post_process_results, _update_route_stats                              *)
(***************************************************************************)
InSeq(s, d) == \E i \in 1..Len(s) : s[i] = d

\* post_process_results writing only the keys that hold no value yet
post_process_results_addonly(documents, a, m) ==
    [d \in Docs |->
        IF InSeq(documents, d)
        THEN [m[d] EXCEPT !.route_strategy =
                              IF @ = "none" THEN a.recommended_strategy ELSE @,
                          !.query_complexity =
                              IF @ = Absent THEN a.query_complexity ELSE @,
                          !.route_confidence =
                              IF @ = Absent THEN a.confidence ELSE @]
        ELSE m[d]]

\* doc.metadata.update({...}) for every doc of documents
post_process_results(documents, a, m) ==
    [d \in Docs |->
        IF InSeq(documents, d)
        THEN [m[d] EXCEPT !.route_strategy = a.recommended_strategy,
                          !.query_complexity = a.query_complexity,
                          !.route_confidence = a.confidence]
        ELSE m[d]]

StatKey(strategy) ==
    CASE strategy = HYBRID_TRADITIONAL -> "traditional_count"
      [] strategy = GRAPH_RAG -> "graph_rag_count"
      [] strategy = COMBINED -> "combined_count"

\* _update_route_stats not run at line 184
update_route_stats_skipped(stats, strategy) == stats

\* _update_route_stats without a branch for COMBINED
update_route_stats_nocombined(stats, strategy) ==
    LET s1 == [stats EXCEPT !.total_queries = @ + 1]
    IN  IF strategy = COMBINED THEN s1 ELSE [s1 EXCEPT ![StatKey(strategy)] = @ + 1]

\* _update_route_stats(strategy)
update_route_stats(stats, strategy) ==
    LET s1 == [stats EXCEPT !.total_queries = @ + 1]
    IN  [s1 EXCEPT ![StatKey(strategy)] = @ + 1]

ZeroStats == [traditional_count |-> 0, graph_rag_count |-> 0,
              combined_count |-> 0, total_queries |-> 0]

(***************************************************************************)
(* Inputs.                                                                 *)
(***************************************************************************)
\* hongshaorou zenme zuo? : no keyword of either list
QueryPlain == <<"u7EA2", "u70E7", "u8089", "u600E", "u4E48", "u505A", "uFF1F">>
\* weishenme ... guanxi : two complexity keywords
QueryWhyRelation == <<"u4E3A", "u4EC0", "u4E48", "u6709", "u5173", "u7CFB">>
\* "weishenme ruhe guanxi" : three complexity keywords, three tokens
QueryThree == <<"u4E3A", "u4EC0", "u4E48", Space, "u5982", "u4F55", Space, "u5173", "u7CFB">>
\* dapei : holds the relation keywords dapei and pei
QueryPairing == <<"u642D", "u914D">>
\* xiangguanxi: xiangguan (relation) overlapping guanxi (complexity)
QueryOverlap == <<"u76F8", "u5173", "u7CFB">>
\* weishenme guanxi dapei : two complexity keywords, two relation keywords
QueryWhyRelationPairing ==
    <<"u4E3A", "u4EC0", "u4E48", "u5173", "u7CFB", "u642D", "u914D">>
Queries == {QueryPlain, QueryWhyRelation, QueryThree, QueryPairing, QueryOverlap,
            QueryWhyRelationPairing, <<>>}
RouteQueries == {QueryPlain, QueryThree}

JsonObjects ==
    {[query_complexity |-> c, relationship_intensity |-> r, reasoning_required |-> rr,
      entity_count |-> ec, recommended_strategy |-> st, confidence |-> cf,
      reasoning |-> why] :
        c \in {Absent, Num(8, 10), Num(15, 10)},
        r \in {Absent, Num(2, 10)},
        rr \in {Absent, Bool(TRUE)},
        ec \in {Absent, Num(3, 1), Num(-1, 1)},
        st \in {Absent, Str(HYBRID_TRADITIONAL), Str(GRAPH_RAG), Str(COMBINED),
                Str("bogus")},
        cf \in {Absent, Num(85, 100), Str("high")},
        why \in {Absent, Str("llm_reasoning")}}
ErrorReplies ==
    {ErrorReply(kind) : kind \in {"transport_error", "not_json", "json_not_object"}}
Replies == ErrorReplies \cup {ObjectReply(o) : o \in JsonObjects}
\* The replies route_query is explored with: one failure, and an object that
\* names each strategy, an unknown one, or none.
RouteReplies ==
    {ErrorReply("transport_error")} \cup
    {ObjectReply([NoObj EXCEPT !.recommended_strategy = st]) :
        st \in {Absent, Str(HYBRID_TRADITIONAL), Str(GRAPH_RAG), Str(COMBINED),
                Str("bogus")}} \cup
    {ObjectReply([NoObj EXCEPT !.recommended_strategy = Str(GRAPH_RAG),
                               !.query_complexity = Num(8, 10),
                               !.confidence = Num(85, 100)])}
NoReply == ErrorReply("no_call")

(***************************************************************************)
(* State.                                                                  *)
(***************************************************************************)
VARIABLES
    route_stats,    \* self.route_stats
    meta,           \* doc.metadata of every passage
    hashFn,         \* the process's str hash
    \* one caller of analyze_query / route_query
    pc,             \* "idle", "search", "fallback", "done"
    query, top_k,   \* the arguments of the call
    reply,          \* what the classification service answered
    analysis,       \* what analyze_query returned
    documents,      \* the passages route_query returns
    outcome,        \* "none", "returned", "raised"
    calls,          \* the engine calls of this route_query call, in order
    engineRaised,   \* whether an engine call of this route_query call raised
    completed,      \* route_query calls that returned
    failedAnalysis, \* route_query calls that raised before the counters moved
    failedDispatch, \* route_query calls that raised after the counters moved
    fallbackOut,    \* what the fallback call of this route_query call did
    prev_meta,      \* the passages' metadata when this route_query call began
    rule_result,    \* what _rule_based_analysis returned inside analyze_query
    snapshot,       \* what the last get_route_statistics returned
    explanation,    \* what the last explain_routing_decision did
    g_pc,           \* where generate_adaptive_answer_stream stands
    attempt,        \* the loop variable of its retry loop
    max_retries,    \* its argument
    chunk_i,        \* chunks of the present streaming response read so far
    yielded,        \* what the generator has yielded to its consumer, in order
    requests,       \* streaming requests made (create(..., stream=True))
    failures,       \* streaming attempts that raised
    fallbackCalls,  \* calls of generate_adaptive_answer
    completedStream, \* the attempt whose stream ended without error, or 0
    \* one call of _combined_search, its two pool threads and the wall clock
    c_pc,             \* "idle", "submit_graph", "wait", "shutdown", "merge", "returned"
    engT, engG,       \* what each engine does when called in this call
    futT, futG,       \* future_traditional, future_graph: "none", "running", "done"
    traditional_docs, \* the nonlocal lists the tasks assign
    graph_docs,
    elapsed,          \* seconds since concurrent.futures.wait was entered
    finishOrder,      \* the tasks in the order they finished
    combined_docs,    \* what _combined_search returned
    lateTasks,        \* the tasks that finished after the wait had timed out
    \* concurrent callers of route_query on one router
    t_pc,             \* per caller: its position in route_query
    t_analysis,       \* per caller: its analysis
    t_reg             \* per caller: the counter value it read and has not stored yet

routerVars == <<route_stats, meta, hashFn>>
callVars == <<pc, query, top_k, reply, analysis, documents, outcome, calls,
              engineRaised, completed, failedAnalysis, failedDispatch, fallbackOut,
              prev_meta, rule_result>>
combVars == <<c_pc, engT, engG, futT, futG, traditional_docs, graph_docs, elapsed,
              finishOrder, combined_docs, lateTasks>>
concVars == <<t_pc, t_analysis, t_reg>>
sessVars == <<snapshot, explanation>>
streamVars == <<g_pc, attempt, max_retries, chunk_i, yielded, requests, failures,
                fallbackCalls, completedStream>>
vars == <<routerVars, callVars, combVars, concVars, sessVars, streamVars>>

Callers == 1..NCallers
NoOutcome == [raised |-> FALSE, docs |-> <<>>]
NoSnapshot == [kind |-> "none"]
NoExplanation == [outcome |-> "none"]

\* __init__, lines 48-64, and a caller that has not called yet
Init ==
    /\ route_stats = ZeroStats
    /\ meta = FreshMeta
    /\ hashFn \in HashFns
    /\ pc = "idle"
    /\ query = <<>>
    /\ top_k = 1
    /\ reply = NoReply
    /\ analysis = None
    /\ documents = <<>>
    /\ outcome = "none"
    /\ calls = <<>>
    /\ engineRaised = FALSE
    /\ completed = 0
    /\ failedAnalysis = 0
    /\ failedDispatch = 0
    /\ fallbackOut = NoOutcome
    /\ prev_meta = FreshMeta
    /\ rule_result = None
    /\ snapshot = NoSnapshot
    /\ explanation = NoExplanation
    /\ g_pc = "idle"
    /\ attempt = 0
    /\ max_retries = 0
    /\ chunk_i = 0
    /\ yielded = <<>>
    /\ requests = 0
    /\ failures = 0
    /\ fallbackCalls = 0
    /\ completedStream = 0
    /\ lateTasks = {}
    /\ c_pc = "idle"
    /\ engT = NoOutcome
    /\ engG = NoOutcome
    /\ futT = "none"
    /\ futG = "none"
    /\ traditional_docs = <<>>
    /\ graph_docs = <<>>
    /\ elapsed = 0
    /\ finishOrder = <<>>
    /\ combined_docs = <<>>
    /\ t_pc = [c \in Callers |-> "idle"]
    /\ t_analysis = [c \in Callers |-> None]
    /\ t_reg = [c \in Callers |-> 0]

(***************************************************************************)
(* SpecAnalyze: analyze_query on every query and reply.                    *)
(***************************************************************************)
\* analyze_query(q), the service answering r
AnalyzeCall(q, r) ==
    /\ pc = "idle"
    /\ query' = q
    /\ reply' = r
    /\ analysis' = analyze_query(q, r)
    /\ rule_result' = RuleCall(q, r)
    /\ outcome' = "returned"
    /\ pc' = "done"
    /\ UNCHANGED <<routerVars, top_k, documents, calls, engineRaised, completed,
                   failedAnalysis, failedDispatch, fallbackOut, prev_meta, combVars,
                   concVars, streamVars, sessVars>>

\* the caller takes the result; it may call again
AnalyzeDone ==
    /\ pc = "done"
    /\ pc' = "idle"
    /\ query' = <<>>
    /\ reply' = NoReply
    /\ analysis' = None
    /\ rule_result' = None
    /\ outcome' = "none"
    /\ UNCHANGED <<routerVars, top_k, documents, calls, engineRaised, completed,
                   failedAnalysis, failedDispatch, fallbackOut, prev_meta, combVars,
                   concVars, streamVars, sessVars>>

NextAnalyze ==
    \/ \E q \in Queries, r \in Replies : AnalyzeCall(q, r)
    \/ AnalyzeDone

SpecAnalyze == Init /\ [][NextAnalyze]_vars

\* The classification call failed: no QueryAnalysis was built from the reply.
ClassificationFailed(r) == TryRaises(r)

\* C1: whenever the classification call fails (transport error, unparsable
\* reply, unknown strategy), analyze_query returns the rule-based analysis of
\* the query, with confidence 0.6 and the rule-based rationale.
C1_FallbackReturned ==
    (pc = "done" /\ ClassificationFailed(reply)) =>
        /\ analysis = rule_based_analysis(query)
        /\ analysis.confidence = RuleConfidence
        /\ analysis.reasoning = Str(RuleReasoning)

(***************************************************************************)
(* Spec: route_query, one caller at a time.  The engines are external: a   *)
(* call raises or returns any ranked list.  The passages a call's engines  *)
(* return are new objects, whose metadata starts empty.                    *)
(***************************************************************************)
TopKs == 1..MaxK
EngineCall(engine, q, k, via) == [engine |-> engine, query |-> q, k |-> k, via |-> via]
Started == completed + failedAnalysis + failedDispatch

\* Lines 181-184: analyze_query, then _update_route_stats.  With analysis
\* None, analysis.recommended_strategy raises AttributeError outside the try
\* block of route_query, before the counters move.
RouteStartWith(q, k, r, m) ==
    /\ pc = "idle"
    /\ Started < MaxCalls
    /\ query' = q
    /\ top_k' = k
    /\ analysis' = analyze_query(q, r)
    /\ documents' = <<>>
    /\ calls' = <<>>
    /\ engineRaised' = FALSE
    /\ meta' = m
    /\ prev_meta' = m
    /\ fallbackOut' = NoOutcome
    /\ IF analysis' = None
       THEN /\ pc' = "done"
            /\ outcome' = "raised"
            /\ failedAnalysis' = failedAnalysis + 1
            /\ UNCHANGED route_stats
       ELSE /\ pc' = "search"
            /\ outcome' = "none"
            /\ route_stats' = update_route_stats(route_stats, analysis'.recommended_strategy)
            /\ UNCHANGED failedAnalysis
    /\ UNCHANGED <<hashFn, reply, completed, failedDispatch, rule_result, combVars,
                   concVars, streamVars, sessVars>>

\* route_query called when the engines build new passages for every search
RouteStart(q, k, r) == RouteStartWith(q, k, r, FreshMeta)

\* DirectEngine with the graph branch calling the traditional engine
DirectEngine_onlytraditional(strategy) == "traditional"

\* The engine a direct route calls: lines 190-198
DirectEngine(strategy) ==
    IF strategy = HYBRID_TRADITIONAL THEN "traditional" ELSE "graph"

\* Lines 190-198 and 205-209: the selected engine's search returns or raises;
\* on a return the passages are annotated and route_query returns.
DirectSearch(out) ==
    /\ pc = "search"
    /\ analysis.recommended_strategy \in {HYBRID_TRADITIONAL, GRAPH_RAG}
    /\ calls' = Append(calls, EngineCall(DirectEngine(analysis.recommended_strategy),
                                         query, top_k, "direct"))
    /\ IF out.raised
       THEN /\ pc' = "fallback"
            /\ engineRaised' = TRUE
            /\ UNCHANGED <<documents, meta, outcome, completed>>
       ELSE /\ pc' = "done"
            /\ documents' = out.docs
            /\ meta' = post_process_results(out.docs, analysis, meta)
            /\ outcome' = "returned"
            /\ completed' = completed + 1
            /\ UNCHANGED engineRaised
    /\ UNCHANGED <<route_stats, hashFn, query, top_k, reply, analysis,
                   failedAnalysis, failedDispatch, fallbackOut, prev_meta, rule_result,
                   combVars, concVars, streamVars, sessVars>>

\* Lines 200-209: _combined_search(query, top_k) runs both engines, each
\* with its share of top_k, merges what the two tasks left, and route_query
\* annotates and returns the merge.  The tasks swallow the engines' failures.
CombinedSearch(outT, outG) ==
    /\ pc = "search"
    /\ analysis.recommended_strategy = COMBINED
    /\ calls' = calls \o <<EngineCall("traditional", query, traditional_k(top_k), "combined"),
                           EngineCall("graph", query, graph_k(top_k), "combined")>>
    /\ engineRaised' = (outT.raised \/ outG.raised)
    /\ LET merged == CombinedMerge(TaskDocs(outG), TaskDocs(outT), top_k, meta, hashFn)
       IN  /\ documents' = merged.docs
           /\ meta' = post_process_results(merged.docs, analysis, merged.meta)
    /\ pc' = "done"
    /\ outcome' = "returned"
    /\ completed' = completed + 1
    /\ UNCHANGED <<route_stats, hashFn, query, top_k, reply, analysis,
                   failedAnalysis, failedDispatch, fallbackOut, prev_meta, rule_result,
                   combVars, concVars, streamVars, sessVars>>

\* FallbackResult dropping what the engine yielded
FallbackResult_empty(out) == <<>>

\* Lines 214-215: documents = hybrid_search(query, top_k); return documents
FallbackResult(out) == out.docs

\* Lines 211-215: the except branch calls the traditional engine and returns
\* what it yields; a failure of this call leaves route_query.
FallbackSearch(out) ==
    /\ pc = "fallback"
    /\ calls' = Append(calls, EngineCall("traditional", query, top_k, "fallback"))
    /\ pc' = "done"
    /\ IF out.raised
       THEN /\ outcome' = "raised"
            /\ failedDispatch' = failedDispatch + 1
            /\ UNCHANGED <<documents, completed>>
       ELSE /\ outcome' = "returned"
            /\ documents' = FallbackResult(out)
            /\ completed' = completed + 1
            /\ UNCHANGED failedDispatch
    /\ fallbackOut' = out
    /\ UNCHANGED <<route_stats, meta, hashFn, query, top_k, reply, analysis,
                   engineRaised, failedAnalysis, prev_meta, rule_result, combVars,
                   concVars, streamVars, sessVars>>

\* route_query has returned or raised: the caller goes on
RouteDone ==
    /\ pc = "done"
    /\ pc' = "idle"
    /\ outcome' = "none"
    /\ UNCHANGED <<routerVars, query, top_k, reply, analysis, documents, calls,
                   engineRaised, completed, failedAnalysis, failedDispatch,
                   fallbackOut, prev_meta, rule_result, combVars, concVars, streamVars, sessVars>>

Next ==
    \/ \E q \in RouteQueries, k \in TopKs, r \in RouteReplies : RouteStart(q, k, r)
    \/ \E out \in EngineOutcomes : DirectSearch(out)
    \/ \E outT \in EngineOutcomes, outG \in EngineOutcomes : CombinedSearch(outT, outG)
    \/ \E out \in EngineOutcomes : FallbackSearch(out)
    \/ RouteDone

Spec == Init /\ [][Next]_vars

(***************************************************************************)
(* SpecCombined: one call of _combined_search with its two pool threads    *)
(* and the wall clock.  What each engine does (engT, engG) is fixed when   *)
(* the call starts; when it does it is up to the scheduler and the engine. *)
(* Time passes only while an engine call is running: the main thread's own *)
(* steps take no time, and a wait whose timeout is due returns before the  *)
(* clock moves on.                                                         *)
(***************************************************************************)
Timeout == 30      \* concurrent.futures.wait(..., timeout=30)
callFrame == <<route_stats, pc, reply, analysis, documents, calls, engineRaised,
               completed, failedAnalysis, failedDispatch, fallbackOut, prev_meta,
               rule_result, sessVars>>

\* Lines 225-231 and 255: the lists start empty, traditional_search is
\* submitted and a pool thread starts it.
CombinedStart(q, k, oT, oG) ==
    /\ c_pc = "idle"
    /\ query' = q
    /\ top_k' = k
    /\ engT' = oT
    /\ engG' = oG
    /\ traditional_docs' = <<>>
    /\ graph_docs' = <<>>
    /\ futT' = "running"
    /\ c_pc' = "submit_graph"
    /\ UNCHANGED <<callFrame, concVars, streamVars, lateTasks, meta, hashFn, futG, elapsed, finishOrder,
                   combined_docs, outcome>>

\* Line 256: graph_search is submitted; line 259: the main thread waits
SubmitGraph ==
    /\ c_pc = "submit_graph"
    /\ futG' = "running"
    /\ c_pc' = "wait"
    /\ UNCHANGED <<callFrame, concVars, streamVars, lateTasks, meta, hashFn, query, top_k, engT, engG, futT,
                   traditional_docs, graph_docs, elapsed, finishOrder, combined_docs,
                   outcome>>

\* traditional_search, lines 233-241, run by a pool thread
TraditionalTask ==
    /\ futT = "running"
    /\ traditional_docs' = TaskDocs(engT)
    /\ futT' = "done"
    /\ finishOrder' = Append(finishOrder, "traditional")
    /\ lateTasks' = IF c_pc = "shutdown" THEN lateTasks \cup {"traditional"} ELSE lateTasks
    /\ UNCHANGED <<callFrame, concVars, streamVars, meta, hashFn, query, top_k, engT, engG, futG,
                   graph_docs, elapsed, combined_docs, c_pc, outcome>>

\* graph_search, lines 243-251, run by a pool thread
GraphTask ==
    /\ futG = "running"
    /\ graph_docs' = TaskDocs(engG)
    /\ futG' = "done"
    /\ finishOrder' = Append(finishOrder, "graph")
    /\ lateTasks' = IF c_pc = "shutdown" THEN lateTasks \cup {"graph"} ELSE lateTasks
    /\ UNCHANGED <<callFrame, concVars, streamVars, meta, hashFn, query, top_k, engT, engG, futT,
                   traditional_docs, elapsed, combined_docs, c_pc, outcome>>

AllDone == futT = "done" /\ futG = "done"

\* concurrent.futures.wait([...], timeout=30) returns, line 259
WaitOver == AllDone \/ elapsed >= Timeout

\* Leaving the pool without joining its threads (shutdown(wait=False))
ShutdownOver_nowait == TRUE

\* The with block is left, line 254: ThreadPoolExecutor.__exit__ calls
\* shutdown(wait=True), which joins the pool's threads.
ShutdownOver == AllDone

\* The wall clock moves while the main thread is blocked on a running task
Tick ==
    /\ c_pc \in {"wait", "shutdown"}
    /\ futT = "running" \/ futG = "running"
    /\ ~(c_pc = "wait" /\ WaitOver)
    /\ elapsed < MaxElapsed
    /\ elapsed' = elapsed + TickSeconds
    /\ UNCHANGED <<callFrame, concVars, streamVars, lateTasks, meta, hashFn, query, top_k, engT, engG, futT,
                   futG, traditional_docs, graph_docs, finishOrder, combined_docs, c_pc,
                   outcome>>

WaitReturns ==
    /\ c_pc = "wait"
    /\ WaitOver
    /\ c_pc' = "shutdown"
    /\ UNCHANGED <<callFrame, concVars, streamVars, lateTasks, meta, hashFn, query, top_k, engT, engG, futT,
                   futG, traditional_docs, graph_docs, elapsed, finishOrder,
                   combined_docs, outcome>>

ShutdownReturns ==
    /\ c_pc = "shutdown"
    /\ ShutdownOver
    /\ c_pc' = "merge"
    /\ UNCHANGED <<callFrame, concVars, streamVars, lateTasks, meta, hashFn, query, top_k, engT, engG, futT,
                   futG, traditional_docs, graph_docs, elapsed, finishOrder,
                   combined_docs, outcome>>

\* Lines 261-286: the merge of what the tasks have assigned, and the return
MergeAndReturn ==
    /\ c_pc = "merge"
    /\ LET merged == CombinedMerge(graph_docs, traditional_docs, top_k, meta, hashFn)
       IN  /\ combined_docs' = merged.docs
           /\ meta' = merged.meta
    /\ outcome' = "returned"
    /\ c_pc' = "returned"
    /\ UNCHANGED <<callFrame, concVars, streamVars, lateTasks, hashFn, query, top_k, engT, engG, futT, futG,
                   traditional_docs, graph_docs, elapsed, finishOrder>>

NextCombined ==
    \/ \E q \in RouteQueries, k \in TopKs, oT \in EngineOutcomes, oG \in EngineOutcomes :
          CombinedStart(q, k, oT, oG)
    \/ SubmitGraph
    \/ TraditionalTask
    \/ GraphTask
    \/ Tick
    \/ WaitReturns
    \/ ShutdownReturns
    \/ MergeAndReturn

SpecCombined == Init /\ [][NextCombined]_vars

(***************************************************************************)
(* SpecConc: NCallers threads, each calling route_query once on the same   *)
(* router.  _update_route_stats holds no lock: each "+= 1" on a counter is *)
(* a load of the dict item, an addition and a store, and another thread    *)
(* can run between the load and the store.  The passages of different      *)
(* calls are different objects and are left out; the retrieval of a call   *)
(* is one step that returns or raises.                                     *)
(***************************************************************************)
concFrame == <<meta, hashFn, callVars, combVars, sessVars, streamVars>>

\* Line 181, and the evaluation of analysis.recommended_strategy at line 184
ConcAnalyze(c, q, r) ==
    /\ t_pc[c] = "idle"
    /\ t_analysis' = [t_analysis EXCEPT ![c] = analyze_query(q, r)]
    /\ t_pc' = [t_pc EXCEPT ![c] = IF analyze_query(q, r) = None
                                   THEN "raised" ELSE "load_total"]
    /\ UNCHANGED <<route_stats, t_reg, concFrame>>

\* Line 302, the load of route_stats["total_queries"]
ConcLoadTotal(c) ==
    /\ t_pc[c] = "load_total"
    /\ t_reg' = [t_reg EXCEPT ![c] = route_stats.total_queries]
    /\ t_pc' = [t_pc EXCEPT ![c] = "store_total"]
    /\ UNCHANGED <<route_stats, t_analysis, concFrame>>

\* Line 302, the store of the sum
ConcStoreTotal(c) ==
    /\ t_pc[c] = "store_total"
    /\ route_stats' = [route_stats EXCEPT !.total_queries = t_reg[c] + 1]
    /\ t_pc' = [t_pc EXCEPT ![c] = "load_count"]
    /\ UNCHANGED <<t_analysis, t_reg, concFrame>>

\* Lines 304-309, the load of the strategy's counter
ConcLoadCount(c) ==
    /\ t_pc[c] = "load_count"
    /\ t_reg' = [t_reg EXCEPT ![c] = route_stats[StatKey(t_analysis[c].recommended_strategy)]]
    /\ t_pc' = [t_pc EXCEPT ![c] = "store_count"]
    /\ UNCHANGED <<route_stats, t_analysis, concFrame>>

\* Lines 304-309, the store of the sum
ConcStoreCount(c) ==
    /\ t_pc[c] = "store_count"
    /\ route_stats' = [route_stats EXCEPT
                          ![StatKey(t_analysis[c].recommended_strategy)] = t_reg[c] + 1]
    /\ t_pc' = [t_pc EXCEPT ![c] = "search"]
    /\ UNCHANGED <<t_analysis, t_reg, concFrame>>

\* Lines 186-215: the retrieval returns, or the selected path and the
\* fallback both raise
ConcRetrieve(c, raises) ==
    /\ t_pc[c] = "search"
    /\ t_pc' = [t_pc EXCEPT ![c] = IF raises THEN "raised" ELSE "returned"]
    /\ UNCHANGED <<route_stats, t_analysis, t_reg, concFrame>>

NextConc ==
    \/ \E c \in Callers, q \in RouteQueries, r \in RouteReplies : ConcAnalyze(c, q, r)
    \/ \E c \in Callers : ConcLoadTotal(c)
    \/ \E c \in Callers : ConcStoreTotal(c)
    \/ \E c \in Callers : ConcLoadCount(c)
    \/ \E c \in Callers : ConcStoreCount(c)
    \/ \E c \in Callers, raises \in BOOLEAN : ConcRetrieve(c, raises)

SpecConc == Init /\ [][NextConc]_vars

(***************************************************************************)
(* A session on one router whose engines hand out the passage objects they *)
(* hold: route_query, get_route_statistics and explain_routing_decision,   *)
(* called one after the other (SpecSession).                               *)
(***************************************************************************)
SessionQueries == {QueryPlain}
SessionTopKs == {MaxK}
SessionReplies ==
    {ErrorReply("transport_error"),
     ObjectReply([NoObj EXCEPT !.recommended_strategy = Str(HYBRID_TRADITIONAL)]),
     ObjectReply([NoObj EXCEPT !.recommended_strategy = Str(COMBINED)]),
     ObjectReply([NoObj EXCEPT !.recommended_strategy = Str(GRAPH_RAG),
                               !.query_complexity = Num(8, 10),
                               !.confidence = Num(85, 100)])}
SessionOutcomes ==
    {[raised |-> TRUE, docs |-> <<>>]} \cup
    {[raised |-> FALSE, docs |-> l] : l \in {<<>>, <<"d1">>, <<"d3", "d1">>}}

\* route_query called when the engines return the passage objects of
\* earlier calls: the metadata written so far is still on them
RouteStartReuse(q, k, r) == RouteStartWith(q, k, r, meta)

RawKeys == {"traditional_count", "graph_rag_count", "combined_count", "total_queries"}
RatioKeys == {"traditional_ratio", "graph_rag_ratio", "combined_ratio"}

\* Ratio giving a percentage
Ratio_percent(count, total) == Num(100 * count, total)

\* self.route_stats[...] / total, lines 322-324
Ratio(count, total) == Num(count, total)

\* Lines 320-325: a new dict with the counters and the three ratios
WithRatios(stats) ==
    [key \in RawKeys \cup RatioKeys |->
        CASE key = "traditional_ratio" -> Ratio(stats.traditional_count, stats.total_queries)
          [] key = "graph_rag_ratio" -> Ratio(stats.graph_rag_count, stats.total_queries)
          [] key = "combined_ratio" -> Ratio(stats.combined_count, stats.total_queries)
          [] OTHER -> stats[key]]

\* get_route_statistics, lines 316-325: with total == 0 the return value is
\* self.route_stats itself, the router's own dict; otherwise a new dict.
get_route_statistics(stats) ==
    IF stats.total_queries = 0
    THEN [kind |-> "alias", value |-> stats, divisions |-> 0]
    ELSE [kind |-> "copy", value |-> WithRatios(stats), divisions |-> 3]

\* What the holder of the last return value of get_route_statistics reads
SnapshotView == IF snapshot.kind = "alias" THEN route_stats ELSE snapshot.value

GetRouteStatistics ==
    /\ pc = "idle"
    /\ snapshot' = get_route_statistics(route_stats)
    /\ pc' = "stats"
    /\ UNCHANGED <<routerVars, query, top_k, reply, analysis, documents, outcome,
                   calls, engineRaised, completed, failedAnalysis, failedDispatch,
                   fallbackOut, prev_meta, rule_result, explanation, combVars,
                   concVars, streamVars>>

\* '简单' / '中等' / '复杂' and the like: value < 0.4, < 0.8, else (lines 342-343)
Level(v) ==
    IF ~NumGe(v, Num(4, 10)) THEN "low"
    ELSE IF ~NumGe(v, Num(8, 10)) THEN "middle" ELSE "high"

\* The f-string of lines 336-350 raises when analysis is None (attribute
\* access) and when a score does not format or compare as a number
ExplainRaises(a) ==
    \/ a = None
    \/ ~FormatsAsFloat(a.query_complexity)
    \/ ~FormatsAsFloat(a.relationship_intensity)
    \/ ~FormatsAsFloat(a.confidence)

\* A bool formats and compares as 1.0 or 0.0
AsNum(v) == IF v.t = "bool" THEN Num(IF v.b THEN 1 ELSE 0, 1) ELSE v

explain_routing_decision(q, r) ==
    LET a == analyze_query(q, r)
    IN  IF ExplainRaises(a)
        THEN [outcome |-> "raised"]
        ELSE [outcome |-> "returned",
              strategy |-> a.recommended_strategy,
              complexity |-> Level(AsNum(a.query_complexity)),
              relationship |-> Level(AsNum(a.relationship_intensity))]

\* explain_routing_decision that also counts the query
ExplainRoutingDecision_counted(q, r) ==
    /\ pc = "idle"
    /\ explanation' = explain_routing_decision(q, r)
    /\ route_stats' = IF analyze_query(q, r) = None THEN route_stats
                      ELSE update_route_stats(route_stats,
                                              analyze_query(q, r).recommended_strategy)
    /\ pc' = "explained"
    /\ UNCHANGED <<meta, hashFn, query, top_k, reply, analysis, documents, outcome,
                   calls, engineRaised, completed, failedAnalysis, failedDispatch,
                   fallbackOut, prev_meta, rule_result, snapshot, combVars, concVars, streamVars>>

\* explain_routing_decision(query), lines 327-352: analyze_query and a
\* formatted report; no statement of it touches self.route_stats.
ExplainRoutingDecision(q, r) ==
    /\ pc = "idle"
    /\ explanation' = explain_routing_decision(q, r)
    /\ pc' = "explained"
    /\ UNCHANGED <<routerVars, query, top_k, reply, analysis, documents, outcome,
                   calls, engineRaised, completed, failedAnalysis, failedDispatch,
                   fallbackOut, prev_meta, rule_result, snapshot, combVars, concVars, streamVars>>

\* get_route_statistics or explain_routing_decision is over: the caller goes
\* on, keeping the statistics it was given; the report has been read.
ObserverDone ==
    /\ pc \in {"stats", "explained"}
    /\ pc' = "idle"
    /\ explanation' = NoExplanation
    /\ UNCHANGED <<routerVars, query, top_k, reply, analysis, documents, outcome,
                   calls, engineRaised, completed, failedAnalysis, failedDispatch,
                   fallbackOut, prev_meta, rule_result, snapshot, combVars, concVars, streamVars>>

NextSession ==
    \/ \E q \in SessionQueries, k \in SessionTopKs, r \in SessionReplies :
           RouteStartReuse(q, k, r)
    \/ \E out \in SessionOutcomes : DirectSearch(out)
    \/ \E outT \in SessionOutcomes, outG \in SessionOutcomes : CombinedSearch(outT, outG)
    \/ \E out \in SessionOutcomes : FallbackSearch(out)
    \/ RouteDone
    \/ GetRouteStatistics
    \/ \E q \in SessionQueries, r \in SessionReplies : ExplainRoutingDecision(q, r)
    \/ ObserverDone

SpecSession == Init /\ [][NextSession]_vars

(***************************************************************************)
(* generate_adaptive_answer_stream (generation_integration.py, lines       *)
(* 108-181): a generator, advanced by its consumer, that retries the       *)
(* streaming request and falls back on generate_adaptive_answer            *)
(* (SpecStream; SpecStreamLive adds the consumer reading to the end).      *)
(***************************************************************************)
routerFrame == <<routerVars, callVars, combVars, concVars, sessVars>>

\* Falling back after whichever attempt failed
LastAttempt_always(a, m) == TRUE

\* Line 162: `attempt < max_retries - 1` is false
LastAttempt(a, m) == ~(a < m - 1)

\* Lines 159-181: the except branch of one attempt
AfterFailure ==
    /\ failures' = failures + 1
    /\ g_pc' = IF LastAttempt(attempt, max_retries) THEN "fallback" ELSE "sleep"

\* The call: the context and the prompt are built (lines 116-130) and the
\* loop `for attempt in range(max_retries)` is entered, or is empty
StreamStart(m) ==
    /\ g_pc = "idle"
    /\ max_retries' = m
    /\ attempt' = 0
    /\ g_pc' = IF m = 0 THEN "ended" ELSE "request"
    /\ UNCHANGED <<chunk_i, yielded, requests, failures, fallbackCalls,
                   completedStream, routerFrame>>

\* Lines 134-143: chat.completions.create(..., stream=True) returns a
\* stream or raises
StreamRequest(ok) ==
    /\ g_pc = "request"
    /\ requests' = requests + 1
    /\ chunk_i' = 0
    /\ IF ok
       THEN g_pc' = "stream" /\ UNCHANGED failures
       ELSE AfterFailure
    /\ UNCHANGED <<attempt, max_retries, yielded, fallbackCalls, completedStream,
                   routerFrame>>

\* Lines 151-155: a chunk with content is read and yielded
StreamChunk ==
    /\ g_pc = "stream"
    /\ chunk_i < MaxChunks
    /\ chunk_i' = chunk_i + 1
    /\ yielded' = Append(yielded, [kind |-> "chunk", attempt |-> attempt,
                                   index |-> chunk_i])
    /\ UNCHANGED <<g_pc, attempt, max_retries, requests, failures, fallbackCalls,
                   completedStream, routerFrame>>

\* Line 152: a chunk whose delta.content is empty is read and skipped
StreamEmptyChunk ==
    /\ g_pc = "stream"
    /\ chunk_i < MaxChunks
    /\ chunk_i' = chunk_i + 1
    /\ UNCHANGED <<g_pc, attempt, max_retries, yielded, requests, failures,
                   fallbackCalls, completedStream, routerFrame>>

\* Lines 151 and 158: the stream is exhausted; `return` ends the generator
StreamEnd ==
    /\ g_pc = "stream"
    /\ completedStream' = attempt + 1
    /\ g_pc' = "ended"
    /\ UNCHANGED <<attempt, max_retries, chunk_i, yielded, requests, failures,
                   fallbackCalls, routerFrame>>

\* Line 151: reading the stream raises (connection lost, timeout)
StreamFail ==
    /\ g_pc = "stream"
    /\ AfterFailure
    /\ UNCHANGED <<attempt, max_retries, chunk_i, yielded, requests, fallbackCalls,
                   completedStream, routerFrame>>

\* Lines 162-167: time.sleep((attempt + 1) * 2), continue
RetrySleep ==
    /\ g_pc = "sleep"
    /\ attempt' = attempt + 1
    /\ g_pc' = "request"
    /\ UNCHANGED <<max_retries, chunk_i, yielded, requests, failures, fallbackCalls,
                   completedStream, routerFrame>>

\* What generate_adaptive_answer returns (lines 94-106): the answer, or the
\* apology built in its own except branch; it lets no Exception out
FallbackTexts == {"answer", "apology"}

\* Lines 168-176: generate_adaptive_answer is called, its text is yielded
\* and the generator returns
StreamFallback(text) ==
    /\ g_pc = "fallback"
    /\ fallbackCalls' = fallbackCalls + 1
    /\ yielded' = Append(yielded, [kind |-> text, attempt |-> attempt, index |-> 0])
    /\ g_pc' = "ended"
    /\ UNCHANGED <<attempt, max_retries, chunk_i, requests, failures,
                   completedStream, routerFrame>>

NextStream ==
    \/ \E m \in 0..MaxRetries : StreamStart(m)
    \/ \E ok \in BOOLEAN : StreamRequest(ok)
    \/ StreamChunk
    \/ StreamEmptyChunk
    \/ StreamEnd
    \/ StreamFail
    \/ RetrySleep
    \/ \E text \in FallbackTexts : StreamFallback(text)

SpecStream == Init /\ [][NextStream]_vars

\* The consumer reads the generator to its end, and a request, a read of the
\* stream (timeout=60, max_tokens) and a sleep each come to an end
SpecStreamLive == SpecStream /\ WF_vars(NextStream)

(***************************************************************************)
(* The claims.                                                             *)
(***************************************************************************)
StrategySum ==
    route_stats.traditional_count + route_stats.graph_rag_count
        + route_stats.combined_count
LastCall == calls[Len(calls)]

\* C2: route_query raises only if the selected retrieval path raised and the
\* traditional-engine fallback raised too; in particular a failure of the
\* classification service does not make it raise.
C2_RaisesOnlyAfterBothFail ==
    (pc = "done" /\ outcome = "raised") =>
        /\ engineRaised
        /\ Len(calls) >= 2
        /\ LastCall.via = "fallback"

\* The counters agree with the calls made so far.
C3_Accounting ==
    /\ StrategySum = route_stats.total_queries
    /\ route_stats.total_queries =
          completed + failedDispatch + (IF pc \in {"search", "fallback"} THEN 1 ELSE 0)
    /\ (pc \in {"idle", "done"} /\ failedDispatch = 0) =>
          route_stats.total_queries = completed
C3_NoCounterLowered ==
    \A key \in DOMAIN route_stats : route_stats'[key] >= route_stats[key]
\* C3: the three strategy counters always sum to total_queries; every call
\* that got to its retrieval is counted exactly once, so that between calls,
\* when every call so far has completed, total_queries is the number of
\* calls; and no step lowers a counter.
C3_CountersMatchCalls == [](C3_Accounting) /\ [][C3_NoCounterLowered]_vars

\* Two calls have completed, the last of them through the fallback.
C3_Witness ==
    /\ pc = "done"
    /\ outcome = "returned"
    /\ completed = 2
    /\ failedDispatch = 0
    /\ LastCall.via = "fallback"
    /\ route_stats.total_queries = 2

\* C4: once all concurrent callers have returned from route_query,
\* total_queries is their number and so is the sum of the strategy counters.
C4_NoLostUpdate ==
    (\A c \in Callers : t_pc[c] = "returned") =>
        /\ route_stats.total_queries = NCallers
        /\ StrategySum = NCallers

\* C5: _combined_search is never still running after its deadline: it has
\* returned by the time more than Timeout seconds have passed in its wait.
C5_ReturnsByDeadline ==
    elapsed > Timeout => c_pc = "returned"

\* C6: _combined_search returns at most top_k passages, each tagged
\* search_source "graph_rag" or "traditional".
C6_AtMostKTagged ==
    c_pc = "returned" =>
        /\ Len(combined_docs) <= top_k
        /\ \A i \in 1..Len(combined_docs) :
              meta[combined_docs[i]].search_source \in {"graph_rag", "traditional"}

\* The merge held more than top_k passages and top_k of them were returned.
C6_Witness ==
    /\ c_pc = "returned"
    /\ Len(combined_docs) = top_k
    /\ Len(MergeLoop(0, Max(Len(traditional_docs), Len(graph_docs)), graph_docs,
                     traditional_docs, [seen |-> {}, out |-> <<>>, meta |-> FreshMeta],
                     hashFn).out) > top_k

\* C7: the output of _combined_search (passages and their tags) is the merge
\* of the two engines' result lists, whichever task finished first and
\* whenever each finished.
C7_MergeDeterministic ==
    c_pc = "returned" =>
        LET m == CombinedMerge(TaskDocs(engG), TaskDocs(engT), top_k, FreshMeta, hashFn)
        IN  /\ combined_docs = m.docs
            /\ meta = m.meta

\* The traditional task finished first, the graph task after the deadline,
\* and the output starts with the graph engine's first passage.
C7_Witness ==
    /\ c_pc = "returned"
    /\ finishOrder = <<"traditional", "graph">>
    /\ elapsed >= Timeout
    /\ Len(engG.docs) >= 1
    /\ Len(engT.docs) >= 1
    /\ Len(combined_docs) = 2
    /\ combined_docs[1] = engG.docs[1]
    /\ combined_docs[2] = engT.docs[1]

\* The passages in scan order graph[0], traditional[0], graph[1], ...: each
\* with its position and the tag of its list.
ScanItems ==
    {[pos |-> 2 * (i - 1), doc |-> graph_docs[i], source |-> "graph_rag"] :
        i \in 1..Len(graph_docs)}
    \cup
    {[pos |-> 2 * (i - 1) + 1, doc |-> traditional_docs[i], source |-> "traditional"] :
        i \in 1..Len(traditional_docs)}
FirstWithPrefixOf(d) ==
    CHOOSE it \in ScanItems :
        /\ Prefix(it.doc) = Prefix(d)
        /\ \A other \in ScanItems :
              Prefix(other.doc) = Prefix(d) => it.pos <= other.pos

\* C8: no two passages of the output share their first 100 characters, and
\* an output passage is the first passage in scan order with its 100-character
\* prefix, tagged with the source of the list it was found in.
C8_DedupKeepsFirst ==
    c_pc = "returned" =>
        /\ \A i, j \in 1..Len(combined_docs) :
              i # j => Prefix(combined_docs[i]) # Prefix(combined_docs[j])
        /\ \A i \in 1..Len(combined_docs) :
              /\ FirstWithPrefixOf(combined_docs[i]).doc = combined_docs[i]
              /\ meta[combined_docs[i]].search_source =
                    FirstWithPrefixOf(combined_docs[i]).source

\* The traditional passage d2 is scanned before the graph passage d1, which
\* shares its prefix: d2 is kept, tagged "traditional".
C8_Witness ==
    /\ c_pc = "returned"
    /\ graph_docs = <<"d3", "d1">>
    /\ traditional_docs = <<"d2">>
    /\ combined_docs = <<"d3", "d2">>
    /\ meta["d2"].search_source = "traditional"

\* The first passage of each hash in a list, then at most k of them
RECURSIVE KeepFirst(_, _, _)
KeepFirst(s, n, h) ==
    IF n = 0 THEN <<>>
    ELSE KeepFirst(s, n - 1, h) \o
         (IF \E j \in 1..(n - 1) : h[s[j]] = h[s[n]] THEN <<>> ELSE <<s[n]>>)
OneEngineMerge(s, k, h) == Slice(KeepFirst(s, Len(s), h), k)
AllTagged(s, source) == \A i \in 1..Len(s) : meta[s[i]].search_source = source

\* C9: when one engine raises, the other task still runs and the output is
\* the merge of the other engine's results alone; when both raise the output
\* is empty; _combined_search returns in each case.
C9_EngineFailureIsEmpty ==
    /\ outcome # "raised"
    /\ c_pc = "returned" =>
        /\ (engG.raised /\ ~engT.raised) =>
              /\ combined_docs = OneEngineMerge(engT.docs, top_k, hashFn)
              /\ AllTagged(combined_docs, "traditional")
        /\ (engT.raised /\ ~engG.raised) =>
              /\ combined_docs = OneEngineMerge(engG.docs, top_k, hashFn)
              /\ AllTagged(combined_docs, "graph_rag")
        /\ (engT.raised /\ engG.raised) => combined_docs = <<>>

\* The traditional engine raised and the graph engine's passages came back.
C9_Witness ==
    /\ c_pc = "returned"
    /\ engT.raised
    /\ ~engG.raised
    /\ Len(engG.docs) = 2
    /\ combined_docs = engG.docs

\* C10: when no engine raises, a Traditional route calls only the
\* traditional engine, a GraphRag route only the graph engine, each with the
\* caller's query and top_k, and a Combined route runs the combined search
\* with the caller's top_k, split between the two engines.
C10_RouteMatchesStrategy ==
    (pc = "done" /\ outcome = "returned" /\ ~engineRaised) =>
        /\ analysis.recommended_strategy = HYBRID_TRADITIONAL =>
              calls = <<EngineCall("traditional", query, top_k, "direct")>>
        /\ analysis.recommended_strategy = GRAPH_RAG =>
              calls = <<EngineCall("graph", query, top_k, "direct")>>
        /\ analysis.recommended_strategy = COMBINED =>
              /\ calls = <<EngineCall("traditional", query, traditional_k(top_k), "combined"),
                           EngineCall("graph", query, graph_k(top_k), "combined")>>
              /\ calls[1].k + calls[2].k = top_k
              /\ Len(documents) <= top_k

\* A GraphRag route returned the graph engine's passages.
C10_Witness ==
    /\ pc = "done"
    /\ outcome = "returned"
    /\ ~engineRaised
    /\ analysis.recommended_strategy = GRAPH_RAG
    /\ Len(documents) = 2
    /\ calls = <<EngineCall("graph", query, top_k, "direct")>>

\* The dispatched branch of the present call raised (a direct engine call;
\* the combined branch swallows its engines' failures)
BranchRaised ==
    /\ analysis # None
    /\ analysis.recommended_strategy \in {HYBRID_TRADITIONAL, GRAPH_RAG}
    /\ engineRaised

FallbackCalls == {i \in 1..Len(calls) : calls[i].via = "fallback"}

\* C11: when the dispatched branch raises, the traditional engine is
\* called exactly once more, with the call's query and top_k, and route_query
\* returns what that call yields, or raises when that call raises; no
\* fallback call is made when the branch did not raise.
C11_FallbackOnce ==
    pc = "done" =>
        IF BranchRaised
        THEN /\ calls = <<EngineCall(DirectEngine(analysis.recommended_strategy),
                                     query, top_k, "direct"),
                          EngineCall("traditional", query, top_k, "fallback")>>
             /\ IF fallbackOut.raised
                THEN outcome = "raised"
                ELSE outcome = "returned" /\ documents = fallbackOut.docs
        ELSE FallbackCalls = {}

\* The graph engine raised and the fallback returned two passages.
C11_Witness ==
    /\ pc = "done"
    /\ BranchRaised
    /\ analysis.recommended_strategy = GRAPH_RAG
    /\ ~fallbackOut.raised
    /\ Len(fallbackOut.docs) = 2
    /\ documents = fallbackOut.docs
    /\ outcome = "returned"

\* The three routing keys of passage d are those of the returned analysis
Annotated(d) ==
    /\ meta[d].route_strategy = analysis.recommended_strategy
    /\ meta[d].query_complexity = analysis.query_complexity
    /\ meta[d].route_confidence = analysis.confidence

\* C12: every passage route_query returns carries route_strategy,
\* query_complexity and route_confidence equal to those of the analysis,
\* on the direct, combined and fallback paths alike.
C12_ReturnedAreAnnotated ==
    (pc = "done" /\ outcome = "returned") =>
        \A i \in 1..Len(documents) : Annotated(documents[i])

Why == <<"u4E3A", "u4EC0", "u4E48">>
Relation == <<"u5173", "u7CFB">>
HasWhyAndRelation == Contains(query, Why) /\ Contains(query, Relation)
ComplexityCount == CountPresent(complexity_keywords, query)
RelationCount == CountPresent(relation_keywords, query)

\* C15 as stated: under the rule-based classifier a query holding both
\* "why" and "relation" scores above 0.3 and is given GraphRag.
C15_WhyRelationIsGraph ==
    (rule_result # None /\ HasWhyAndRelation) =>
        /\ NumGt(rule_result.query_complexity, Num(3, 10))
        /\ rule_result.recommended_strategy = GRAPH_RAG

\* C15, amended: a query holding both keywords scores at least 2/7, and
\* 2/7 is below 0.3; it is given GraphRag exactly when it holds a third
\* complexity keyword or two relation keywords, and Traditional otherwise.
C15_WhyRelationNeedsThird ==
    (rule_result # None /\ HasWhyAndRelation) =>
        /\ NumGe(rule_result.query_complexity, Num(2, 7))
        /\ ~NumGt(Num(2, 7), Num(3, 10))
        /\ NumGt(rule_result.query_complexity, Num(3, 10)) <=> ComplexityCount >= 3
        /\ rule_result.recommended_strategy =
              IF ComplexityCount >= 3 \/ RelationCount >= 2
              THEN GRAPH_RAG ELSE HYBRID_TRADITIONAL

\* The classifier ran on "why ... relation" alone and chose Traditional.
C15_Witness ==
    /\ rule_result # None
    /\ query = QueryWhyRelation
    /\ HasWhyAndRelation
    /\ rule_result.query_complexity = Num(2, 7)
    /\ rule_result.recommended_strategy = HYBRID_TRADITIONAL

\* C16: _rule_based_analysis recommends GraphRag exactly when count/7 of
\* the complexity keywords or count/6 of the relation keywords exceeds 0.3,
\* Traditional otherwise; reasoning_required is whether the complexity
\* score exceeds 0.3; a query with no keyword gets Traditional and false.
C16_RuleThresholds ==
    rule_result # None =>
        /\ rule_result.recommended_strategy =
              IF \/ NumGt(Num(ComplexityCount, 7), Num(3, 10))
                 \/ NumGt(Num(RelationCount, 6), Num(3, 10))
              THEN GRAPH_RAG ELSE HYBRID_TRADITIONAL
        /\ rule_result.reasoning_required =
              Bool(NumGt(Num(ComplexityCount, 7), Num(3, 10)))
        /\ NumEq(rule_result.query_complexity, Num(ComplexityCount, 7))
        /\ NumEq(rule_result.relationship_intensity, Num(RelationCount, 6))
        /\ query = QueryPlain =>
              /\ ComplexityCount = 0
              /\ RelationCount = 0
              /\ rule_result.recommended_strategy = HYBRID_TRADITIONAL
              /\ rule_result.reasoning_required = Bool(FALSE)

\* The relation score alone sends "pairing" to GraphRag, without reasoning.
C16_Witness ==
    /\ rule_result # None
    /\ query = QueryPairing
    /\ RelationCount = 2
    /\ ComplexityCount = 0
    /\ rule_result.recommended_strategy = GRAPH_RAG
    /\ rule_result.reasoning_required = Bool(FALSE)

RECURSIVE Interleave(_, _, _)
\* G[i], T[i], G[i+1], T[i+1], ... with the indices past a list's end skipped
Interleave(G, T, i) ==
    IF i > Max(Len(G), Len(T))
    THEN <<>>
    ELSE (IF i <= Len(G) THEN <<G[i]>> ELSE <<>>)
         \o (IF i <= Len(T) THEN <<T[i]>> ELSE <<>>)
         \o Interleave(G, T, i + 1)

\* No two passages of the two lists share their first 100 characters
NoSharedPrefix(G, T) ==
    LET all == G \o T
    IN  \A i, j \in 1..Len(all) : i # j => Prefix(all[i]) # Prefix(all[j])

\* C17: when the engines' lists share no 100-character prefix,
\* _combined_search returns the first top_k passages of graph[0],
\* traditional[0], graph[1], traditional[1], ...
C17_RoundRobinOrder ==
    (c_pc = "returned" /\ NoSharedPrefix(graph_docs, traditional_docs)) =>
        combined_docs = Slice(Interleave(graph_docs, traditional_docs, 1), top_k)

\* C18: an engine call that was still running when the wait timed out
\* contributes no passage to the merged output, and nothing is raised.
C18_LateResultsDiscarded ==
    c_pc = "returned" =>
        /\ outcome = "returned"
        /\ "graph" \in lateTasks =>
              \A i \in 1..Len(combined_docs) :
                  meta[combined_docs[i]].search_source # "graph_rag"
        /\ "traditional" \in lateTasks =>
              \A i \in 1..Len(combined_docs) :
                  meta[combined_docs[i]].search_source # "traditional"

\* An engine search of the present call is pending or running
Retrieving == pc \in {"search", "fallback"}

\* C20 as stated: while an engine search of a call is running the counters
\* do not yet include the call.
C20_CountedAfterRetrieval ==
    Retrieving => route_stats.total_queries = completed + failedDispatch

C20_CountedOnce ==
    Retrieving =>
        /\ route_stats.total_queries = completed + failedDispatch + 1
        /\ route_stats[StatKey(analysis.recommended_strategy)] >= 1
C20_RetrievalKeepsCounters ==
    (Retrieving \/ pc = "done") => route_stats' = route_stats
\* C20, amended: the counters are updated right after classification, before
\* retrieval; while an engine search of the call is running they already
\* include the call, and retrieval, annotation and the return leave them as
\* they are.
C20_CountedBeforeRetrieval ==
    [](C20_CountedOnce) /\ [][C20_RetrievalKeepsCounters]_vars

\* The first call has been classified and counted; no engine has been called.
C20_Witness ==
    /\ pc = "search"
    /\ calls = <<>>
    /\ completed = 0
    /\ route_stats.total_queries = 1

\* C13: get_route_statistics returns the four counters and, when
\* total_queries > 0, three ratios, each its strategy's count divided by
\* total_queries; with total_queries = 0 it returns the four zero counters
\* alone and divides nothing.
C13_StatisticsAndRatios ==
    pc = "stats" =>
        /\ \A key \in RawKeys : SnapshotView[key] = route_stats[key]
        /\ IF route_stats.total_queries > 0
           THEN /\ DOMAIN SnapshotView = RawKeys \cup RatioKeys
                /\ NumEq(SnapshotView.traditional_ratio,
                         Num(route_stats.traditional_count, route_stats.total_queries))
                /\ NumEq(SnapshotView.graph_rag_ratio,
                         Num(route_stats.graph_rag_count, route_stats.total_queries))
                /\ NumEq(SnapshotView.combined_ratio,
                         Num(route_stats.combined_count, route_stats.total_queries))
                /\ \A key \in RatioKeys : SnapshotView[key].d # 0
           ELSE /\ DOMAIN SnapshotView = RawKeys
                /\ \A key \in RawKeys : SnapshotView[key] = 0
                /\ snapshot.divisions = 0

\* After a Traditional and a GraphRag call the ratios are 1/2, 1/2 and 0.
C13_Witness ==
    /\ pc = "stats"
    /\ route_stats.total_queries = 2
    /\ route_stats.traditional_count = 1
    /\ route_stats.graph_rag_count = 1
    /\ NumEq(SnapshotView.traditional_ratio, Num(1, 2))
    /\ NumEq(SnapshotView.combined_ratio, Num(0, 1))

C14_ExplainStep == pc = "idle" /\ pc' = "explained"
\* C14: no call of explain_routing_decision changes any of the four
\* routing counters, whatever the query, the classification reply and the
\* router's state, and however many such calls follow one another.
C14_ExplainKeepsCounters ==
    [][C14_ExplainStep => route_stats' = route_stats]_vars

\* A report has been produced after a route_query call was counted.
C14_Witness ==
    /\ pc = "explained"
    /\ explanation.outcome = "returned"
    /\ explanation.strategy = GRAPH_RAG
    /\ route_stats.total_queries = 1
    /\ route_stats.traditional_count = 1

\* The passages the annotator wrote on in the call that has just returned
AnnotatedNow(d) ==
    /\ outcome = "returned"
    /\ LastCall.via # "fallback"
    /\ InSeq(documents, d)

\* C19 as stated: a value a passage already holds under one of the three
\* routing keys when it reaches the annotator is left unchanged.
C19_NeverOverwrites ==
    pc = "done" =>
        \A d \in Docs :
            /\ prev_meta[d].route_strategy # "none" =>
                  meta[d].route_strategy = prev_meta[d].route_strategy
            /\ prev_meta[d].query_complexity # Absent =>
                  meta[d].query_complexity = prev_meta[d].query_complexity
            /\ prev_meta[d].route_confidence # Absent =>
                  meta[d].route_confidence = prev_meta[d].route_confidence

\* C19, amended: the annotator sets the three routing keys of every passage
\* it is given to the values of the present analysis, replacing what an
\* earlier call wrote; the keys of the passages it is not given stay as they
\* were.
C19_AnnotationOverwrites ==
    (pc = "done" /\ analysis # None) =>
        \A d \in Docs :
            IF AnnotatedNow(d)
            THEN /\ meta[d].route_strategy = analysis.recommended_strategy
                 /\ meta[d].query_complexity = analysis.query_complexity
                 /\ meta[d].route_confidence = analysis.confidence
            ELSE /\ meta[d].route_strategy = prev_meta[d].route_strategy
                 /\ meta[d].query_complexity = prev_meta[d].query_complexity
                 /\ meta[d].route_confidence = prev_meta[d].route_confidence

\* A passage annotated by a GraphRag call is returned again by a
\* Traditional call and now carries the Traditional call's values.
C19_Witness ==
    /\ pc = "done"
    /\ outcome = "returned"
    /\ InSeq(documents, "d1")
    /\ LastCall.via = "direct"
    /\ prev_meta["d1"].route_strategy = GRAPH_RAG
    /\ prev_meta["d1"].query_complexity = Num(8, 10)
    /\ analysis.recommended_strategy = HYBRID_TRADITIONAL
    /\ meta["d1"].route_strategy = HYBRID_TRADITIONAL
    /\ meta["d1"].query_complexity = Num(5, 10)

\* The split of k that C21 describes, stated without max and div
IsSplit(k, tk, gk) ==
    /\ tk >= 1
    /\ gk >= 0
    /\ tk + gk = k
    /\ k = 1 => (tk = 1 /\ gk = 0)
    /\ k >= 2 => (2 * tk <= k /\ k < 2 * tk + 2)

\* C21: _combined_search asks the traditional engine for max(1, k div 2)
\* passages and the graph engine for the rest of k: the first share is at
\* least 1, the second at least 0, they sum to k, and k = 1 gives 1 and 0.
C21_SplitOfK ==
    /\ \A k \in 1..MaxSplitK : IsSplit(k, traditional_k(k), graph_k(k))
    /\ (pc = "done" /\ analysis # None /\ analysis.recommended_strategy = COMBINED) =>
          /\ Len(calls) = 2
          /\ calls[1].engine = "traditional"
          /\ calls[2].engine = "graph"
          /\ IsSplit(top_k, calls[1].k, calls[2].k)

\* A combined search with top_k = 1 asked the graph engine for 0 passages.
C21_Witness ==
    /\ pc = "done"
    /\ analysis # None
    /\ analysis.recommended_strategy = COMBINED
    /\ top_k = 1
    /\ calls[1].k = 1
    /\ calls[2].k = 0

\* v is a number of [0, 1]
InUnit(v) == IsNum(v) /\ NumGe(v, Num(0, 1)) /\ NumGe(Num(1, 1), v)

\* C22: every analysis analyze_query returns has query_complexity,
\* relationship_intensity and confidence in [0, 1], entity_count >= 0 and
\* one of the three strategies.
C22_AnalysisInRange ==
    (pc = "done" /\ analysis # None) =>
        /\ InUnit(analysis.query_complexity)
        /\ InUnit(analysis.relationship_intensity)
        /\ InUnit(analysis.confidence)
        /\ IsNum(analysis.entity_count) /\ NumGe(analysis.entity_count, Num(0, 1))
        /\ analysis.recommended_strategy \in SearchStrategy

\* The defaults C23 names for the fields a reply omits
ClaimedDefault ==
    [query_complexity |-> Num(5, 10),
     relationship_intensity |-> Num(5, 10),
     reasoning_required |-> Bool(FALSE),
     entity_count |-> Num(1, 1),
     recommended_strategy |-> Str(HYBRID_TRADITIONAL),
     confidence |-> Num(5, 10)]

\* The reply is a JSON object whose strategy, if present, is one of the
\* three and whose confidence, if present, is a number
AcceptableObject(r) ==
    /\ r.kind = "json_object"
    /\ r.obj.recommended_strategy \in {Absent} \cup {Str(st) : st \in SearchStrategy}
    /\ r.obj.confidence = Absent \/ r.obj.confidence.t \in {"num", "bool"}

ExpectedField(r, f) == IF r.obj[f] = Absent THEN ClaimedDefault[f] ELSE r.obj[f]

\* C23: from a reply that is a JSON object analyze_query returns an
\* analysis in which every omitted field holds its default (0.5, 0.5, false,
\* 1, Traditional, 0.5) and every field the reply holds keeps its value.
C23_DefaultsForOmitted ==
    (pc = "done" /\ AcceptableObject(reply)) =>
        /\ analysis # None
        /\ \A f \in DOMAIN ClaimedDefault :
              IF f = "recommended_strategy"
              THEN analysis[f] = ExpectedField(reply, f).s
              ELSE analysis[f] = ExpectedField(reply, f)

\* The reply held a complexity and a strategy and omitted the confidence and
\* the entity count.
C23_Witness ==
    /\ pc = "done"
    /\ AcceptableObject(reply)
    /\ reply.obj.query_complexity = Num(8, 10)
    /\ reply.obj.recommended_strategy = Str(GRAPH_RAG)
    /\ reply.obj.confidence = Absent
    /\ reply.obj.entity_count = Absent
    /\ analysis.query_complexity = Num(8, 10)
    /\ analysis.recommended_strategy = GRAPH_RAG
    /\ analysis.confidence = Num(5, 10)
    /\ analysis.entity_count = Num(1, 1)

\* C24: what get_route_statistics returned stays as it was returned,
\* whatever route_query calls follow; a snapshot taken before any query
\* goes on reporting 0 for every counter.
C24_SnapshotIsFrozen ==
    snapshot.kind # "none" => SnapshotView = snapshot.value

\* Two yielded items come from the same attempt, or both from the fallback
SameSource(x, y) == (x.kind = "chunk") = (y.kind = "chunk") /\ x.attempt = y.attempt

\* C25: everything one run of generate_adaptive_answer_stream yields
\* comes from a single attempt: nothing of a later attempt, nor the fallback
\* answer, is yielded after chunks of an attempt that failed.
C25_SingleAttemptOutput ==
    \A i, j \in 1..Len(yielded) : SameSource(yielded[i], yielded[j])

C26_Bounded ==
    /\ requests <= max_retries
    /\ fallbackCalls <= 1
    /\ fallbackCalls = 1 => (failures = max_retries /\ requests = max_retries)
    /\ g_pc = "fallback" => (failures = max_retries /\ requests = max_retries)
    /\ completedStream # 0 =>
          (g_pc = "ended" /\ requests = completedStream /\ fallbackCalls = 0)
C26_NoRequestAfterSuccess ==
    completedStream # 0 => requests' = requests
\* C26: for max_retries >= 1 a run makes at most max_retries streaming
\* requests, none after a stream that ended without error, calls
\* generate_adaptive_answer at most once and only after the max_retries-th
\* attempt failed, and comes to its end.
C26_StreamTerminates ==
    /\ [](max_retries >= 1 => C26_Bounded)
    /\ [][C26_NoRequestAfterSuccess]_vars
    /\ (g_pc # "idle" /\ max_retries >= 1) ~> (g_pc = "ended")

\* Three attempts failed, the last two after yielding, and the fallback
\* answer closed the run.
C26_Witness ==
    /\ g_pc = "ended"
    /\ max_retries = 3
    /\ requests = 3
    /\ failures = 3
    /\ fallbackCalls = 1
    /\ Len(yielded) >= 2
    /\ yielded[Len(yielded)].kind = "answer"

=============================================================================
